---- MODULE Spec2Model ----
(***************************************************************************)
(* Session orchestration of the Forex Scalper client (src/gui.py):        *)
(* the UI queue and its single consumer, the connection coordinator, the  *)
(* readiness gate, the scalping loop worker, the batch accounting, the    *)
(* trade execution handler and the advisory worker.                       *)
(*                                                                         *)
(* Threads: the Tk main thread runs every callback (button commands,      *)
(* after() timers, the queue drain) one at a time; _connect_thread_target,*)
(* _scalp_loop and _chatgpt_analysis_thread run on their own threads and  *)
(* interleave with it at every statement that touches shared state.       *)
(***************************************************************************)
EXTENDS Integers, Sequences, FiniteSets, TLC

(* ------------------------------ bounds -------------------------------- *)
MaxSessions == 2      \* start_scalping invocations (one _scalp_loop thread each)
MaxSignals  == 6      \* buy/sell results of strategy.decide, in one long session
FewSignals  == 1      \* the same, where sessions restart or producers compete
MaxQueue    == 2      \* messages waiting in _ui_queue
MaxEquity   == 2      \* equity values the broker reports: 0..MaxEquity
MaxTarget   == 1      \* batch profit targets the user may enter: 1..MaxTarget
MaxOffset   == 0      \* offsets strategy.decide returns: 0..MaxOffset
MaxPips     == 2      \* distances handed to _execute_trade: 0..MaxPips
MaxAttempts == 2      \* attempt_connection invocations
MaxAdvisory == 2      \* run_chatgpt_analysis invocations
MaxBars     == 2      \* bar counts per timeframe: 0..MaxBars
MaxUpdates  == 2      \* account/positions updates the broker pushes
MaxPolls    == 2      \* unanswered polls of _check_connection that are counted

(* ------------------------- program constants -------------------------- *)
batch_size == 5       \* self.batch_size = 5
tp_var     == 10      \* tk.DoubleVar(value=10.0)
sl_var     == 5       \* tk.DoubleVar(value=5.0)

(* Python's None and a present value, as sequences of length 0 and 1. *)
None    == <<>>
Some(x) == <<x>>

Workers    == 1..MaxSessions
Attempts   == 1..MaxAttempts
Requests   == 1..MaxAdvisory
Equities   == {None} \cup {Some(e) : e \in 0..MaxEquity}
Targets    == 1..MaxTarget
Offsets    == {None} \cup {Some(o) : o \in 0..MaxOffset}
Prices     == {None, Some(1)}
Sides      == {"buy", "sell"}
Timeframes == {"1m", "15s"}

(* Producers of the queue: the broker callbacks, each _scalp_loop thread, *)
(* each _chatgpt_analysis_thread.                                         *)
Broker      == 0
Scalper(w)  == w
Advisor(k)  == -k
Caller      == MaxSessions + 1
Producers   == {Broker, Caller} \cup {Scalper(w) : w \in Workers}
                                \cup {Advisor(k) : k \in Requests}

(* ------------------------------ state --------------------------------- *)
VARIABLES
    \* MainApplication
    ui_queue,             \* self._ui_queue, a FIFO of [type, data, src, n]
    drain_pending,        \* armed after(100, self._process_ui_queue) timers
    main_thread,          \* what the Tk main thread is running
    page,                 \* the page raised by show_page
    \* Trader (the broker collaborator), as the program observes it
    trader_conn,          \* what get_connection_status() / is_connected report
    trader_account,       \* TRUE once account_id and balance are resolved
    \* SettingsPage
    status,               \* text of the status label
    attempts,             \* connection attempts: thread and scheduled callbacks
    \* TradingPage
    is_scalping,
    start_button,
    stop_button,
    ai_button,
    total_trades,
    current_batch_trades,
    batch_start_equity,
    scalp,                \* the _scalp_loop threads: position and locals
    advisory,             \* the _chatgpt_analysis_thread threads
    \* observations of the run (no program state)
    sent,                 \* messages each producer has put on the queue
    handled,              \* number of the last message of each producer that
                          \* the consumer has dispatched
    last_handled,         \* the last message of each producer it dispatched
    budget,               \* what is left of the bounds of the run
    calls,                \* stop commands on a running session, the
                          \* close_all_positions calls they made, and the
                          \* place_market_order calls that reported success
    readiness,            \* outcome of the last readiness evaluation
    gate,                 \* readiness gate applied to given maps: maps, result
    stop_seen,            \* per _scalp_loop thread: 0 running, 1 a stop was
                          \* invoked during its run, 2 it has since re-checked
                          \* the flag at the loop head
    strategy_var          \* the strategy name selected on the trading page

vars == << ui_queue, drain_pending, main_thread, page, trader_conn,
           trader_account, status, attempts, is_scalping, start_button,
           stop_button, ai_button, total_trades, current_batch_trades,
           batch_start_equity, scalp, advisory, sent, handled, last_handled,
           budget, calls, readiness, gate, stop_seen, strategy_var >>

(* --------------------------- pure functions --------------------------- *)

(* summary.get("equity", 0.0) or 0.0 *)
SummaryEquity(equity) == IF equity = None \/ equity = Some(0) THEN 0 ELSE equity[1]

(* final_tp_pips = tp_offset_strategy if tp_offset_strategy is not None else tp_pips_gui *)
final_tp_pips(tp_offset_strategy, tp_pips_gui) ==
    IF tp_offset_strategy # None THEN tp_offset_strategy[1] ELSE tp_pips_gui

(* final_sl_pips = sl_offset_strategy if sl_offset_strategy is not None else sl_pips_gui *)
(* A stop loss that treats an offset of 0 as absent (truthiness test). *)
final_sl_pips_truthy(sl_offset_strategy, sl_pips_gui) ==
    IF sl_offset_strategy # None /\ sl_offset_strategy # Some(0)
    THEN sl_offset_strategy[1] ELSE sl_pips_gui
final_sl_pips(sl_offset_strategy, sl_pips_gui) ==
    IF sl_offset_strategy # None THEN sl_offset_strategy[1] ELSE sl_pips_gui

(* equity - self.batch_start_equity >= batch_target *)
(* A profit target that must be exceeded, not merely met. *)
TargetExceeded(equity, start_equity, batch_target) ==
    equity - start_equity > batch_target
TargetReached(equity, start_equity, batch_target) ==
    equity - start_equity >= batch_target

(* self.current_batch_trades >= self.batch_size *)
BatchFull(trades) == trades >= batch_size

(* Maps from some of the timeframes to counts. *)
BarMaps(counts) == UNION {[S -> counts] : S \in SUBSET Timeframes}

(* available_bars_map.get(tf, 0) *)
AvailableCount(available_bars_map, tf) ==
    IF tf \in DOMAIN available_bars_map THEN available_bars_map[tf] ELSE 0

(* if available_count < required_count: all_ready = False *)
(* A gate that also waits when the requirement is exactly met. *)
ShortOrEqual(available_count, required_count) ==
    available_count <= required_count
Short(available_count, required_count) == available_count < required_count

(* The for loop over required_bars_map.items(), all_ready carried along. *)
RECURSIVE ReadyLoop(_, _, _, _)
ReadyLoop(tfs, required_bars_map, available_bars_map, all_ready) ==
    IF tfs = {} THEN all_ready
    ELSE LET tf == CHOOSE t \in tfs : TRUE
         IN  ReadyLoop(tfs \ {tf}, required_bars_map, available_bars_map,
                 IF Short(AvailableCount(available_bars_map, tf), required_bars_map[tf])
                 THEN FALSE ELSE all_ready)

(* all_ready as _update_data_readiness_display computes it *)
AllReady(required_bars_map, available_bars_map) ==
    IF DOMAIN required_bars_map = {} THEN TRUE
    ELSE ReadyLoop(DOMAIN required_bars_map, required_bars_map,
                   available_bars_map, TRUE)

(* What the readiness evaluation can compute from the strategy's and the  *)
(* broker's maps.                                                         *)
ReadinessResults ==
    {AllReady(required_bars_map, available_bars_map) :
        required_bars_map \in BarMaps(1..MaxBars),
        available_bars_map \in BarMaps(0..MaxBars)}

(* ------------------------------ the queue ----------------------------- *)

(* self._ui_queue.put((msg_type, data)) by producer src *)
Put(queue, src, msg_type, data) ==
    Append(queue, [type |-> msg_type, data |-> data, src |-> src,
                   n |-> sent[src] + 1])

(* self._ui_queue.get_nowait(): the message it returns, and what is left *)
(* A queue that hands out its newest message first. *)
GetNowaitNewest(queue) == queue[Len(queue)]
GetNowait(queue) == Head(queue)
(* A queue whose messages stay in it once taken. *)
RestKeeps(queue) == queue
Rest(queue)      == Tail(queue)

Publish(src, msg_type, data) ==
    /\ Len(ui_queue) < MaxQueue
    /\ ui_queue' = Put(ui_queue, src, msg_type, data)
    /\ sent' = [sent EXCEPT ![src] = @ + 1]

(* ------------------------------- Init --------------------------------- *)
NoSignal == [kind |-> "none"]
NoAttempt == [pc |-> "none", handshake |-> FALSE, final_msg |-> <<>>,
              polls |-> 0]
NoAdvisory == [pc |-> "none", results |-> 0, idles |-> 0, advice_calls |-> 0]
NoScalp  == [pc |-> "none", batch_target |-> 0, equity |-> None,
             equity_after_close |-> None, price |-> None,
             action_details |-> NoSignal]

(* The state __init__ leaves, but for the queue and the main thread. *)
Constructed ==
    /\ page = "SettingsPage"
    /\ trader_conn = "no"
    /\ trader_account = FALSE
    /\ status = <<"Disconnected">>
    /\ attempts = [a \in Attempts |-> NoAttempt]
    /\ is_scalping = FALSE
    /\ start_button = "normal"
    /\ stop_button = "disabled"
    /\ ai_button = "normal"
    /\ total_trades = 0
    /\ current_batch_trades = 0
    /\ batch_start_equity = 0
    /\ scalp = [w \in Workers |-> NoScalp]
    /\ advisory = [k \in Requests |-> NoAdvisory]
    /\ handled = [p \in Producers |-> 0]
    /\ last_handled = [p \in Producers |-> "none"]
    /\ calls = [stop_scalping |-> 0, close_all_positions |-> 0,
                place_market_order_ok |-> 0, start_rejected |-> 0,
                handler_raised |-> 0]
    /\ readiness = "none"
    /\ stop_seen = [w \in Workers |-> 0]

(* The program after construction: the queue empty, its first drain       *)
(* scheduled (self.after(100, self._process_ui_queue)).                   *)
Start(b) ==
    /\ Constructed
    /\ strategy_var = "Safe"
    /\ budget = b
    /\ gate = <<>>
    /\ ui_queue = <<>>
    /\ sent = [p \in Producers |-> 0]
    /\ drain_pending = 1
    /\ main_thread = [pc |-> "idle"]

(* ---------------------- _scalp_loop (worker thread) -------------------- *)

(* What strategy.decide may return: None, a value that is no dict, or a   *)
(* dict with an action and optional offsets.                              *)
DecideResults ==
    {NoSignal, [kind |-> "other"]}
    \cup {[kind |-> "dict", action |-> a, sl_offset |-> s, tp_offset |-> t] :
             a \in Sides \cup {"hold"}, s \in Offsets, t \in Offsets}

(* A thread that has been started and has neither returned nor died. *)
Running(w) == scalp[w].pc \notin {"none", "done", "crashed"}

(* while self.is_scalping: *)
ScalpLoopHead(w) ==
    /\ scalp[w].pc \in {"head", "sleep", "sleep_no_price"}
    /\ scalp' = [scalp EXCEPT ![w].pc = IF is_scalping THEN "batch" ELSE "done",
                              ![w].equity = None,
                              ![w].equity_after_close = None]
    /\ stop_seen' = [stop_seen EXCEPT ![w] = IF @ = 1 THEN 2 ELSE @]
    /\ UNCHANGED << ui_queue, drain_pending, main_thread, page, trader_conn,
                    trader_account, status, attempts, is_scalping, start_button,
                    stop_button, ai_button, total_trades, current_batch_trades,
                    batch_start_equity, advisory, sent, handled, last_handled,
                    budget, calls, readiness, gate, strategy_var >>

(* if self.current_batch_trades >= self.batch_size: read the equity and   *)
(* compare it with the batch target; announce the flatten when reached.   *)
ScalpBatchCheck(w) ==
    /\ scalp[w].pc = "batch"
    /\ IF BatchFull(current_batch_trades)
       THEN \E e \in Equities :
              LET equity == SummaryEquity(e) IN
              IF TargetReached(equity, batch_start_equity, scalp[w].batch_target)
              THEN /\ Publish(Scalper(w), "_log", <<"batch">>)
                   /\ scalp' = [scalp EXCEPT ![w].pc = "flatten",
                                             ![w].equity = Some(equity)]
              ELSE /\ scalp' = [scalp EXCEPT ![w].pc = "price",
                                             ![w].equity = Some(equity)]
                   /\ UNCHANGED << ui_queue, sent >>
       ELSE /\ scalp' = [scalp EXCEPT ![w].pc = "price"]
            /\ UNCHANGED << ui_queue, sent >>
    /\ UNCHANGED << drain_pending, main_thread, page, trader_conn,
                    trader_account, status, attempts, is_scalping, start_button,
                    stop_button, ai_button, total_trades, current_batch_trades,
                    batch_start_equity, advisory, handled, last_handled,
                    budget, calls, readiness, gate, stop_seen, strategy_var >>

(* try: close_all_positions() except: put the error; then                 *)
(* self.batch_start_equity = equity; self.current_batch_trades = 0.       *)
(* equity_after_close is what the account's equity is once the close has  *)
(* been carried out or has failed; the loop does not read it.             *)
ScalpFlatten(w) ==
    /\ scalp[w].pc = "flatten"
    /\ \E raised \in BOOLEAN :
         IF raised THEN Publish(Scalper(w), "_log", <<"close_error">>)
                   ELSE UNCHANGED << ui_queue, sent >>
    /\ batch_start_equity' = scalp[w].equity[1]
    /\ current_batch_trades' = 0
    /\ \E after \in Equities :
         scalp' = [scalp EXCEPT ![w].pc = "price",
                                ![w].equity_after_close =
                                    Some(SummaryEquity(after))]
    /\ UNCHANGED << drain_pending, main_thread, page, trader_conn,
                    trader_account, status, attempts, is_scalping, start_button,
                    stop_button, ai_button, total_trades, advisory, handled,
                    last_handled, budget, calls, readiness, gate, stop_seen,
                    strategy_var >>

(* if current_tick_price is None *)
(* A loop that never skips an iteration for want of a price. *)
PriceNeverMissing(current_tick_price) == FALSE
PriceMissing(current_tick_price) == current_tick_price = None

(* current_tick_price = get_market_price(symbol); None: sleep, continue *)
ScalpGetPrice(w) ==
    /\ scalp[w].pc = "price"
    /\ \E p \in Prices :
         scalp' = [scalp EXCEPT ![w].pc = IF PriceMissing(p)
                                          THEN "sleep_no_price" ELSE "decide",
                                ![w].price = p]
    /\ UNCHANGED << ui_queue, drain_pending, main_thread, page, trader_conn,
                    trader_account, status, attempts, is_scalping, start_button,
                    stop_button, ai_button, total_trades, current_batch_trades,
                    batch_start_equity, advisory, sent, handled, last_handled,
                    budget, calls, readiness, gate, stop_seen, strategy_var >>

(* if action_details and isinstance(action_details, dict) and the action  *)
(* is buy or sell                                                         *)
IsSignal(action_details) ==
    action_details.kind = "dict" /\ action_details.action \in Sides

(* action_details = strategy.decide(...); on a signal put the log line *)
ScalpDecide(w) ==
    /\ scalp[w].pc = "decide"
    /\ \E d \in DecideResults :
         IF IsSignal(d)
         THEN /\ budget.signals > 0
              /\ budget' = [budget EXCEPT !.signals = @ - 1]
              /\ Publish(Scalper(w), "_log", <<"signal">>)
              /\ scalp' = [scalp EXCEPT ![w].pc = "publish",
                                        ![w].action_details = d]
         ELSE /\ scalp' = [scalp EXCEPT ![w].pc = "sleep", ![w].price = None]
              /\ UNCHANGED << ui_queue, sent, budget >>
    /\ UNCHANGED << drain_pending, main_thread, page, trader_conn,
                    trader_account, status, attempts, is_scalping, start_button,
                    stop_button, ai_button, total_trades, current_batch_trades,
                    batch_start_equity, advisory, handled, last_handled,
                    calls, readiness, gate, stop_seen, strategy_var >>

(* The tuple put with "_execute_trade" (symbol, size and comment, which   *)
(* are passed through untouched, are left out).                           *)
TradeIntent(side, price, tp, sl, sl_offset, tp_offset) ==
    [side |-> side, price |-> price, tp_pips_gui |-> tp, sl_pips_gui |-> sl,
     sl_offset_strategy |-> sl_offset, tp_offset_strategy |-> tp_offset]

(* put(("_execute_trade", ...)); time.sleep(1) *)
ScalpPublish(w) ==
    /\ scalp[w].pc = "publish"
    /\ Publish(Scalper(w), "_execute_trade",
               TradeIntent(scalp[w].action_details.action, scalp[w].price,
                           tp_var, sl_var,
                           scalp[w].action_details.sl_offset,
                           scalp[w].action_details.tp_offset))
    /\ scalp' = [scalp EXCEPT ![w].pc = "sleep", ![w].price = None,
                              ![w].action_details = NoSignal]
    /\ UNCHANGED << drain_pending, main_thread, page, trader_conn,
                    trader_account, status, attempts, is_scalping, start_button,
                    stop_button, ai_button, total_trades, current_batch_trades,
                    batch_start_equity, advisory, handled, last_handled,
                    budget, calls, readiness, gate, stop_seen, strategy_var >>

(* get_account_summary, get_market_price or strategy.decide raises: the   *)
(* loop has no handler, the exception ends the thread.                    *)
ScalpRaise(w) ==
    /\ \/ scalp[w].pc = "batch" /\ BatchFull(current_batch_trades)
       \/ scalp[w].pc \in {"price", "decide"}
    /\ scalp' = [scalp EXCEPT ![w] = [NoScalp EXCEPT !.pc = "crashed"]]
    /\ UNCHANGED << ui_queue, drain_pending, main_thread, page, trader_conn,
                    trader_account, status, attempts, is_scalping, start_button,
                    stop_button, ai_button, total_trades, current_batch_trades,
                    batch_start_equity, advisory, sent, handled, last_handled,
                    budget, calls, readiness, gate, stop_seen, strategy_var >>

(* ------------------ the Tk main thread: the queue drain ---------------- *)

(* An event loop that runs a callback while another is still running. *)
Reentrant == TRUE

Idle == main_thread.pc = "idle"

(* The after(100) timer fires: _process_ui_queue starts on the main thread *)
ProcessUiQueue ==
    /\ Idle
    /\ drain_pending > 0
    /\ drain_pending' = drain_pending - 1
    /\ main_thread' = [pc |-> "drain"]
    /\ UNCHANGED << ui_queue, page, trader_conn, trader_account, status,
                    attempts, is_scalping, start_button, stop_button, ai_button,
                    total_trades, current_batch_trades, batch_start_equity,
                    scalp, advisory, sent, handled, last_handled, budget,
                    calls, readiness, gate, stop_seen, strategy_var >>

(* What is remembered of a dispatched message: its type, the kind of a    *)
(* log line, whether a trade intent came without a price.                 *)
Kind(m) == IF m.type = "_log" THEN m.data[1]
           ELSE IF m.type = "_execute_trade" /\ m.data.price = None
           THEN "_execute_trade without price"
           ELSE m.type

(* _execute_trade up to the call of place_market_order: a null price      *)
(* returns at once, otherwise the distances are resolved and the call made *)
ExecuteTrade(intent) ==
    IF intent.price = None
    THEN [pc |-> "drain"]
    ELSE [pc |-> "place_market_order",
          batch_trades_before |-> current_batch_trades,
          side |-> intent.side,
          take_profit_pips |-> final_tp_pips(intent.tp_offset_strategy,
                                             intent.tp_pips_gui),
          stop_loss_pips |-> final_sl_pips(intent.sl_offset_strategy,
                                           intent.sl_pips_gui)]

(* One turn of the while loop: get_nowait() and the branch on msg_type *)
Dispatch ==
    /\ main_thread.pc = "drain"
    /\ ui_queue # <<>>
    /\ LET m == GetNowait(ui_queue) IN
         /\ ui_queue' = Rest(ui_queue)
         /\ handled' = [handled EXCEPT ![m.src] = m.n]
         /\ last_handled' = [last_handled EXCEPT ![m.src] = Kind(m)]
         /\ main_thread' = IF m.type = "_execute_trade"
                           THEN ExecuteTrade(m.data) ELSE main_thread
         /\ ai_button' = IF m.type = "re-enable_ai_button"
                         THEN "normal" ELSE ai_button
    /\ UNCHANGED << drain_pending, page, trader_conn, trader_account, status,
                    attempts, is_scalping, start_button, stop_button,
                    total_trades, current_batch_trades, batch_start_equity,
                    scalp, advisory, sent, budget, calls, readiness, gate,
                    stop_seen, strategy_var >>

(* A return that counts the order in total_trades whatever the result. *)
PlaceMarketOrderCountsEvery ==
    /\ main_thread.pc = "place_market_order"
    /\ \E success \in BOOLEAN :
         IF success
         THEN /\ total_trades' = total_trades + 1
              /\ calls' = [calls EXCEPT !.place_market_order_ok = @ + 1]
              /\ main_thread' = [pc |-> "store",
                                  batch_trades_before |->
                                      main_thread.batch_trades_before,
                                  loaded |-> current_batch_trades]
         ELSE /\ total_trades' = total_trades + 1
              /\ main_thread' = [pc |-> "drain"]
              /\ UNCHANGED calls
    /\ UNCHANGED << ui_queue, drain_pending, page, trader_conn, trader_account,
                    status, attempts, is_scalping, start_button, stop_button,
                    ai_button, current_batch_trades, batch_start_equity, scalp,
                    advisory, sent, handled, last_handled, budget, readiness, gate,
                    stop_seen, strategy_var >>

(* place_market_order returns (success, message); on success             *)
(* total_trades += 1 and the read of current_batch_trades for its += 1    *)
PlaceMarketOrderReturns ==
    /\ main_thread.pc = "place_market_order"
    /\ \E success \in BOOLEAN :
         IF success
         THEN /\ total_trades' = total_trades + 1
              /\ calls' = [calls EXCEPT !.place_market_order_ok = @ + 1]
              /\ main_thread' = [pc |-> "store",
                                  batch_trades_before |->
                                      main_thread.batch_trades_before,
                                  loaded |-> current_batch_trades]
         ELSE /\ main_thread' = [pc |-> "drain"]
              /\ UNCHANGED << total_trades, calls >>
    /\ UNCHANGED << ui_queue, drain_pending, page, trader_conn, trader_account,
                    status, attempts, is_scalping, start_button, stop_button,
                    ai_button, current_batch_trades, batch_start_equity, scalp,
                    advisory, sent, handled, last_handled, budget, readiness, gate,
                    stop_seen, strategy_var >>

(* self.current_batch_trades += 1: the write of the value read, plus one *)
StoreBatchTrades ==
    /\ main_thread.pc = "store"
    /\ current_batch_trades' = main_thread.loaded + 1
    /\ main_thread' = [pc |-> "drain"]
    /\ UNCHANGED << ui_queue, drain_pending, page, trader_conn, trader_account,
                    status, attempts, is_scalping, start_button, stop_button,
                    ai_button, total_trades, batch_start_equity, scalp,
                    advisory, sent, handled, last_handled, budget, calls,
                    readiness, gate, stop_seen, strategy_var >>

(* A handler failure that leaves _process_ui_queue without the after(). *)
DispatchRaisesUnarmed ==
    /\ main_thread.pc = "drain"
    /\ ui_queue # <<>>
    /\ LET m == GetNowait(ui_queue) IN
         /\ ui_queue' = Rest(ui_queue)
         /\ handled' = [handled EXCEPT ![m.src] = m.n]
         /\ last_handled' = [last_handled EXCEPT ![m.src] = Kind(m)]
    /\ calls' = [calls EXCEPT !.handler_raised = @ + 1]
    /\ main_thread' = [pc |-> "idle"]
    /\ UNCHANGED drain_pending
    /\ UNCHANGED << page, trader_conn, trader_account, status, attempts,
                    is_scalping, start_button, stop_button, ai_button,
                    total_trades, current_batch_trades, batch_start_equity,
                    scalp, advisory, sent, budget, readiness, gate, stop_seen,
                    strategy_var >>

(* One turn of the while loop whose handler raises: the message is taken, *)
(* the exception is no queue.Empty, the finally clause schedules the next *)
(* run and the exception ends this one                                     *)
DispatchRaises ==
    /\ main_thread.pc = "drain"
    /\ ui_queue # <<>>
    /\ LET m == GetNowait(ui_queue) IN
         /\ ui_queue' = Rest(ui_queue)
         /\ handled' = [handled EXCEPT ![m.src] = m.n]
         /\ last_handled' = [last_handled EXCEPT ![m.src] = Kind(m)]
    /\ calls' = [calls EXCEPT !.handler_raised = @ + 1]
    /\ main_thread' = [pc |-> "idle"]
    /\ drain_pending' = drain_pending + 1
    /\ UNCHANGED << page, trader_conn, trader_account, status, attempts,
                    is_scalping, start_button, stop_button, ai_button,
                    total_trades, current_batch_trades, batch_start_equity,
                    scalp, advisory, sent, budget, readiness, gate, stop_seen,
                    strategy_var >>

(* except queue.Empty: pass; finally: self.after(100, ...) *)
DrainEnd ==
    /\ main_thread.pc = "drain"
    /\ ui_queue = <<>>
    /\ main_thread' = [pc |-> "idle"]
    /\ drain_pending' = drain_pending + 1
    /\ UNCHANGED << ui_queue, page, trader_conn, trader_account, status,
                    attempts, is_scalping, start_button, stop_button, ai_button,
                    total_trades, current_batch_trades, batch_start_equity,
                    scalp, advisory, sent, handled, last_handled, budget,
                    calls, readiness, gate, stop_seen, strategy_var >>

(* ------------- the Tk main thread: the TradingPage commands ------------ *)

(* The user can press a button of the trading page. *)
(* A button that answers a click whatever its state. *)
CanPressAnyState(button) == Idle /\ page = "TradingPage"

(* The strategy_map of start_scalping and of the readiness display. *)
strategy_map ==
    {"Safe", "Moderate", "Aggressive", "Momentum", "Mean Reversion"}

(* A lookup that falls back on a strategy when the name is unknown. *)
StrategyClassOrDefault(strategy_name) == Some("Safe")

(* strategy_class = strategy_map.get(strategy_name) *)
StrategyClass(strategy_name) ==
    IF strategy_name \in strategy_map THEN Some(strategy_name) ELSE None

CanPress(button) == Idle /\ page = "TradingPage" /\ button = "normal"

(* start_scalping: the batch baseline, the flag, the buttons, the thread *)
StartScalping ==
    /\ CanPress(start_button)
    /\ budget.sessions > 0
    /\ budget' = [budget EXCEPT !.sessions = @ - 1]
    /\ IF StrategyClass(strategy_var) = None
       THEN /\ calls' = [calls EXCEPT !.start_rejected = @ + 1]
            /\ UNCHANGED << batch_start_equity, scalp, current_batch_trades,
                            is_scalping, start_button, stop_button >>
       ELSE /\ \E w \in Workers, batch_target \in Targets, e \in Equities :
                 /\ scalp[w].pc = "none"
                 /\ \A v \in Workers : v < w => scalp[v].pc # "none"
                 /\ batch_start_equity' = SummaryEquity(e)
                 /\ scalp' = [scalp EXCEPT
                                ![w] = [NoScalp EXCEPT
                                          !.pc = "head",
                                          !.batch_target = batch_target]]
            /\ current_batch_trades' = 0
            /\ is_scalping' = TRUE
            /\ start_button' = "disabled"
            /\ stop_button' = "normal"
            /\ UNCHANGED calls
    /\ UNCHANGED << ui_queue, drain_pending, main_thread, page, trader_conn,
                    trader_account, status, attempts, ai_button, total_trades,
                    advisory, sent, handled, last_handled,
                    readiness, gate, stop_seen, strategy_var >>

(* stop_scalping: if self.is_scalping, clear the flag, flip the buttons   *)
(* and call close_all_positions (an exception is logged)                  *)
StopScalping ==
    /\ CanPress(stop_button)
    /\ IF is_scalping
       THEN /\ is_scalping' = FALSE
            /\ start_button' = "normal"
            /\ stop_button' = "disabled"
            /\ calls' = [calls EXCEPT !.stop_scalping = @ + 1,
                                      !.close_all_positions = @ + 1]
            /\ stop_seen' = [w \in Workers |->
                               IF Running(w) /\ stop_seen[w] = 0
                               THEN 1 ELSE stop_seen[w]]
       ELSE UNCHANGED << is_scalping, start_button, stop_button, calls,
                         stop_seen >>
    /\ UNCHANGED << ui_queue, drain_pending, main_thread, page, trader_conn,
                    trader_account, status, attempts, ai_button, total_trades,
                    current_batch_trades, batch_start_equity, scalp, advisory,
                    sent, handled, last_handled, budget, readiness, gate,
                    strategy_var >>

(* A display end that enables the start button whenever all is ready. *)
ReadinessDisplayAnySession(all_ready) ==
    IF all_ready
    THEN /\ start_button' = "normal"
         /\ readiness' = "ready"
    ELSE /\ start_button' = "disabled"
         /\ readiness' = "waiting"

(* The end of _update_data_readiness_display: the start button follows   *)
(* all_ready, and stays disabled while a session runs                     *)
ReadinessDisplay(all_ready) ==
    IF all_ready
    THEN /\ start_button' = IF ~is_scalping THEN "normal" ELSE "disabled"
         /\ readiness' = "ready"
    ELSE /\ start_button' = "disabled"
         /\ readiness' = "waiting"

(* _update_data_readiness_display, from its timer or from the strategy    *)
(* combobox: disconnected, or the gate over the live maps                 *)
UpdateDataReadinessDisplay ==
    /\ Idle
    /\ IF trader_conn # "yes"
       THEN /\ start_button' = "disabled"
            /\ readiness' = "disconnected"
       ELSE IF StrategyClass(strategy_var) = None
       THEN /\ start_button' = "disabled"
            /\ readiness' = "select a strategy"
       ELSE \E all_ready \in ReadinessResults : ReadinessDisplay(all_ready)
    /\ UNCHANGED << ui_queue, drain_pending, main_thread, page, trader_conn,
                    trader_account, status, attempts, is_scalping, stop_button,
                    ai_button, total_trades, current_batch_trades,
                    batch_start_equity, scalp, advisory, sent, handled,
                    last_handled, budget, calls, gate, stop_seen,
                    strategy_var >>

(* The gate of _update_data_readiness_display applied to the maps held in *)
(* gate.                                                                  *)
ApplyReadinessGate ==
    /\ Idle
    /\ gate # <<>>
    /\ readiness = "none"
    /\ ReadinessDisplay(AllReady(gate.required_bars_map,
                                 gate.available_bars_map))
    /\ UNCHANGED << ui_queue, drain_pending, main_thread, page, trader_conn,
                    trader_account, status, attempts, is_scalping, stop_button,
                    ai_button, total_trades, current_batch_trades,
                    batch_start_equity, scalp, advisory, sent, handled,
                    last_handled, budget, calls, gate, stop_seen,
                    strategy_var >>

(* "<- Settings": controller.show_page(SettingsPage) *)
ShowSettingsPage ==
    /\ Idle
    /\ page = "TradingPage"
    /\ page' = "SettingsPage"
    /\ UNCHANGED << ui_queue, drain_pending, main_thread, trader_conn,
                    trader_account, status, attempts, is_scalping, start_button,
                    stop_button, ai_button, total_trades, current_batch_trades,
                    batch_start_equity, scalp, advisory, sent, handled,
                    last_handled, budget, calls, readiness, gate, stop_seen,
                    strategy_var >>

(* ------------------------- the advisory worker ------------------------- *)

(* run_chatgpt_analysis: disable the button, start the thread *)
RunChatgptAnalysis ==
    /\ CanPress(ai_button)
    /\ budget.advisories > 0
    /\ budget' = [budget EXCEPT !.advisories = @ - 1]
    /\ \E k \in Requests :
         /\ advisory[k].pc = "none"
         /\ \A j \in Requests : j < k => advisory[j].pc # "none"
         /\ advisory' = [advisory EXCEPT ![k].pc = "start"]
    /\ ai_button' = "disabled"
    /\ UNCHANGED << ui_queue, drain_pending, main_thread, page, trader_conn,
                    trader_account, status, attempts, is_scalping, start_button,
                    stop_button, total_trades, current_batch_trades,
                    batch_start_equity, scalp, sent, handled, last_handled,
                    calls, readiness, gate, stop_seen, strategy_var >>

(* The try block up to the call of get_ai_advice: market data missing     *)
(* (error put, return), an exception (error put by the handler), or the   *)
(* call is made.                                                          *)
AdvisoryGather(k) ==
    /\ advisory[k].pc = "start"
    /\ \E outcome \in {"missing", "raised", "ok"} :
         IF outcome = "ok"
         THEN /\ advisory' = [advisory EXCEPT ![k].pc = "get_ai_advice",
                                              ![k].advice_calls = @ + 1]
              /\ UNCHANGED << ui_queue, sent >>
         ELSE /\ Publish(Advisor(k), "show_ai_error", <<outcome>>)
              /\ advisory' = [advisory EXCEPT ![k].pc = "finally",
                                              ![k].results = @ + 1]
    /\ UNCHANGED << drain_pending, main_thread, page, trader_conn,
                    trader_account, status, attempts, is_scalping, start_button,
                    stop_button, ai_button, total_trades, current_batch_trades,
                    batch_start_equity, scalp, handled, last_handled, budget,
                    calls, readiness, gate, stop_seen, strategy_var >>

(* An advisory call whose exception nobody reports. *)
AdvisoryAdviceUnhandled(k) ==
    /\ advisory[k].pc = "get_ai_advice"
    /\ \E outcome \in {"advice", "none", "raised"} :
         IF outcome = "raised"
         THEN /\ advisory' = [advisory EXCEPT ![k].pc = "finally"]
              /\ UNCHANGED << ui_queue, sent >>
         ELSE /\ Publish(Advisor(k),
                         IF outcome = "advice" THEN "show_ai_advice"
                                               ELSE "show_ai_error",
                         <<outcome>>)
              /\ advisory' = [advisory EXCEPT ![k].pc = "finally",
                                              ![k].results = @ + 1]
    /\ UNCHANGED << drain_pending, main_thread, page, trader_conn,
                    trader_account, status, attempts, is_scalping, start_button,
                    stop_button, ai_button, total_trades, current_batch_trades,
                    batch_start_equity, scalp, handled, last_handled, budget,
                    calls, readiness, gate, stop_seen, strategy_var >>

(* get_ai_advice returns advice or None, or raises *)
AdvisoryAdvice(k) ==
    /\ advisory[k].pc = "get_ai_advice"
    /\ \E outcome \in {"advice", "none", "raised"} :
         Publish(Advisor(k),
                 IF outcome = "advice" THEN "show_ai_advice" ELSE "show_ai_error",
                 <<outcome>>)
    /\ advisory' = [advisory EXCEPT ![k].pc = "finally", ![k].results = @ + 1]
    /\ UNCHANGED << drain_pending, main_thread, page, trader_conn,
                    trader_account, status, attempts, is_scalping, start_button,
                    stop_button, ai_button, total_trades, current_batch_trades,
                    batch_start_equity, scalp, handled, last_handled, budget,
                    calls, readiness, gate, stop_seen, strategy_var >>

(* finally: put(("re-enable_ai_button", None)) *)
AdvisoryFinally(k) ==
    /\ advisory[k].pc = "finally"
    /\ Publish(Advisor(k), "re-enable_ai_button", <<>>)
    /\ advisory' = [advisory EXCEPT ![k].pc = "done", ![k].idles = @ + 1]
    /\ UNCHANGED << drain_pending, main_thread, page, trader_conn,
                    trader_account, status, attempts, is_scalping, start_button,
                    stop_button, ai_button, total_trades, current_batch_trades,
                    batch_start_equity, scalp, handled, last_handled, budget,
                    calls, readiness, gate, stop_seen, strategy_var >>

(* -------------------------- broker callbacks --------------------------- *)

(* _handle_account_update / _handle_positions_update, on the broker's     *)
(* thread                                                                 *)
HandleUpdate ==
    /\ budget.updates > 0
    /\ budget' = [budget EXCEPT !.updates = @ - 1]
    /\ \E msg_type \in {"account_update", "positions_update"} :
         Publish(Broker, msg_type, <<>>)
    /\ UNCHANGED << drain_pending, main_thread, page, trader_conn,
                    trader_account, status, attempts, is_scalping, start_button,
                    stop_button, ai_button, total_trades, current_batch_trades,
                    batch_start_equity, scalp, advisory, handled, last_handled,
                    calls, readiness, gate, stop_seen, strategy_var >>

(* ---------------------- the connection coordinator --------------------- *)

(* t.get_connection_status(): (connected, msg) *)
ConnectionStatus(conn) ==
    CASE conn = "yes"   -> <<TRUE, None>>
      [] conn = "no"    -> <<FALSE, None>>
      [] conn = "blank" -> <<FALSE, Some("")>>
      [] conn = "error" -> <<FALSE, Some("rejected")>>

GetConnectionStatus == ConnectionStatus(trader_conn)

(* A test for a reason that is present, empty or not. *)
IsNotNone(msg) == msg # None

(* if msg: a reason that is None or the empty string is no reason *)
Truthy(msg) == msg # None /\ msg # Some("")

(* final_msg = f"Failed: {msg}" if msg else "Connection failed." *)
FinalMsg(msg) == IF Truthy(msg) THEN <<"Failed", msg[1]>>
                                ELSE <<"Connection failed.">>

(* attempt_connection: the status text, and the connect thread started *)
AttemptConnection ==
    /\ Idle
    /\ page = "SettingsPage"
    /\ \E a \in Attempts :
         /\ attempts[a].pc = "none"
         /\ \A b \in Attempts : b < a => attempts[b].pc # "none"
         /\ attempts' = [attempts EXCEPT ![a].pc = "thread"]
    /\ budget.attempts > 0
    /\ budget' = [budget EXCEPT !.attempts = @ - 1]
    /\ status' = <<"Processing connection...">>
    /\ UNCHANGED << ui_queue, drain_pending, main_thread, page, trader_conn,
                    trader_account, is_scalping, start_button, stop_button,
                    ai_button, total_trades, current_batch_trades,
                    batch_start_equity, scalp, advisory, sent, handled,
                    last_handled, calls, readiness, gate, stop_seen,
                    strategy_var >>

(* _connect_thread_target: connect() returns true (the status text and    *)
(* the first poll are scheduled) or false (the reason is read and the two *)
(* failure callbacks are scheduled)                                       *)
ConnectThreadTarget(a) ==
    /\ attempts[a].pc = "thread"
    /\ \E connected \in BOOLEAN, conn \in {"no", "yes", "blank", "error"} :
         /\ connected \/ conn # "yes"
         /\ trader_conn' = conn
         /\ attempts' =
              IF connected
              THEN [attempts EXCEPT ![a].pc = "authenticating",
                                    ![a].handshake = TRUE]
              ELSE [attempts EXCEPT ![a].pc = "failing",
                      ![a].final_msg = FinalMsg(ConnectionStatus(conn)[2])]
    /\ UNCHANGED << ui_queue, drain_pending, main_thread, page, trader_account,
                    status, is_scalping, start_button, stop_button, ai_button,
                    total_trades, current_batch_trades, batch_start_equity,
                    scalp, advisory, sent, handled, last_handled, budget,
                    calls, readiness, gate, stop_seen, strategy_var >>

(* after(0): the status text "Connection successful. Authenticating..."   *)
ShowAuthenticating(a) ==
    /\ Idle
    /\ attempts[a].pc = "authenticating"
    /\ status' = <<"Authenticating account...">>
    /\ attempts' = [attempts EXCEPT ![a].pc = "check"]
    /\ UNCHANGED << ui_queue, drain_pending, main_thread, page, trader_conn,
                    trader_account, is_scalping, start_button, stop_button,
                    ai_button, total_trades, current_batch_trades,
                    batch_start_equity, scalp, advisory, sent, handled,
                    last_handled, budget, calls, readiness, gate, stop_seen,
                    strategy_var >>

(* A coordinator that goes back to connect() after showing the failure. *)
ShowConnectFailedRetry(a) ==
    /\ Idle
    /\ attempts[a].pc = "failing"
    /\ status' = attempts[a].final_msg
    /\ attempts' = [attempts EXCEPT ![a].pc = "thread"]
    /\ UNCHANGED << ui_queue, drain_pending, main_thread, page, trader_conn,
                    trader_account, is_scalping, start_button, stop_button,
                    ai_button, total_trades, current_batch_trades,
                    batch_start_equity, scalp, advisory, sent, handled,
                    last_handled, budget, calls, readiness, gate, stop_seen,
                    strategy_var >>

(* after(0): the error box and the status text of a failed connect() *)
ShowConnectFailed(a) ==
    /\ Idle
    /\ attempts[a].pc = "failing"
    /\ status' = attempts[a].final_msg
    /\ attempts' = [attempts EXCEPT ![a].pc = "failed"]
    /\ UNCHANGED << ui_queue, drain_pending, main_thread, page, trader_conn,
                    trader_account, is_scalping, start_button, stop_button,
                    ai_button, total_trades, current_batch_trades,
                    batch_start_equity, scalp, advisory, sent, handled,
                    last_handled, budget, calls, readiness, gate, stop_seen,
                    strategy_var >>

(* A coordinator that shows Connected without looking at the account      *)
(* summary.                                                               *)
OnSuccessfulConnectionUnchecked(a) ==
    /\ status' = <<"Connected">>
    /\ attempts' = [attempts EXCEPT ![a].pc = "connected"]
    /\ page' = "TradingPage"

(* _on_successful_connection: re-poll after 300 ms until account_id and   *)
(* balance are resolved, then show Connected and the trading page         *)
OnSuccessfulConnection(a) ==
    IF ~trader_account
    THEN /\ status' = <<"Fetching account details...">>
         /\ attempts' = [attempts EXCEPT ![a].pc = "fetch"]
         /\ UNCHANGED page
    ELSE /\ status' = <<"Connected">>
         /\ attempts' = [attempts EXCEPT ![a].pc = "connected"]
         /\ page' = "TradingPage"

(* Polling that gives up after the first poll without an answer. *)
PollNoMore(a) ==
    /\ attempts' = [attempts EXCEPT ![a].pc = "abandoned"]
    /\ UNCHANGED << status, page >>

(* self.after(200, self._check_connection); the polls made so far are     *)
(* counted up to MaxPolls                                                 *)
PollAgain(a) ==
    /\ attempts' = [attempts EXCEPT ![a].polls =
                                      IF @ < MaxPolls THEN @ + 1 ELSE @]
    /\ UNCHANGED << status, page >>

(* _check_connection: connected, failed with a reason, or poll again *)
CheckConnection(a) ==
    /\ Idle
    /\ attempts[a].pc = "check"
    /\ LET connected == GetConnectionStatus[1]
           msg       == GetConnectionStatus[2]
       IN  IF connected THEN OnSuccessfulConnection(a)
           ELSE IF Truthy(msg)
           THEN /\ status' = <<"Failed", msg[1]>>
                /\ attempts' = [attempts EXCEPT ![a].pc = "failed"]
                /\ UNCHANGED page
           ELSE PollAgain(a)
    /\ UNCHANGED << ui_queue, drain_pending, main_thread, trader_conn,
                    trader_account, is_scalping, start_button, stop_button,
                    ai_button, total_trades, current_batch_trades,
                    batch_start_equity, scalp, advisory, sent, handled,
                    last_handled, budget, calls, readiness, gate, stop_seen,
                    strategy_var >>

(* after(300, lambda: self._on_successful_connection(t)) *)
FetchAccountDetails(a) ==
    /\ Idle
    /\ attempts[a].pc = "fetch"
    /\ OnSuccessfulConnection(a)
    /\ UNCHANGED << ui_queue, drain_pending, main_thread, trader_conn,
                    trader_account, is_scalping, start_button, stop_button,
                    ai_button, total_trades, current_batch_trades,
                    batch_start_equity, scalp, advisory, sent, handled,
                    last_handled, budget, calls, readiness, gate, stop_seen,
                    strategy_var >>

(* The broker, after a handshake: authentication completes or fails, the  *)
(* connection drops, the account details arrive.                          *)
TraderProgress ==
    /\ \E a \in Attempts : attempts[a].handshake
    /\ \/ /\ trader_conn \in {"no", "blank"}
          /\ trader_conn' \in {"yes", "error"}
          /\ UNCHANGED trader_account
       \/ /\ trader_conn = "yes"
          /\ ~trader_account
          /\ trader_account' = TRUE
          /\ UNCHANGED trader_conn
    /\ UNCHANGED << ui_queue, drain_pending, main_thread, page, status,
                    attempts, is_scalping, start_button, stop_button, ai_button,
                    total_trades, current_batch_trades, batch_start_equity,
                    scalp, advisory, sent, handled, last_handled, budget,
                    calls, readiness, gate, stop_seen, strategy_var >>

(* ----------------------------- the program ----------------------------- *)

Coordinator ==
    \/ AttemptConnection
    \/ \E a \in Attempts : ConnectThreadTarget(a)
    \/ \E a \in Attempts : ShowAuthenticating(a)
    \/ \E a \in Attempts : ShowConnectFailed(a)
    \/ \E a \in Attempts : CheckConnection(a)
    \/ \E a \in Attempts : FetchAccountDetails(a)
    \/ TraderProgress

Consumer ==
    \/ ProcessUiQueue
    \/ Dispatch
    \/ PlaceMarketOrderReturns
    \/ StoreBatchTrades
    \/ DrainEnd

Commands ==
    \/ StartScalping
    \/ StopScalping

(* The consumer where no trade intent is published. *)
Drain ==
    \/ ProcessUiQueue
    \/ Dispatch
    \/ DrainEnd

Display ==
    \/ UpdateDataReadinessDisplay
    \/ ShowSettingsPage

ScalpLoop ==
    \/ \E w \in Workers : ScalpLoopHead(w)
    \/ \E w \in Workers : ScalpBatchCheck(w)
    \/ \E w \in Workers : ScalpGetPrice(w)
    \/ \E w \in Workers : ScalpDecide(w)
    \/ \E w \in Workers : ScalpPublish(w)
    \/ \E w \in Workers : ScalpRaise(w)

Flatten == \E w \in Workers : ScalpFlatten(w)

Advisory ==
    \/ RunChatgptAnalysis
    \/ \E k \in Requests : AdvisoryGather(k)
    \/ \E k \in Requests : AdvisoryAdvice(k)
    \/ \E k \in Requests : AdvisoryFinally(k)

(* One trading session, long enough for the batch to fill and flatten. *)
Init == Start([sessions |-> 1, signals |-> MaxSignals, attempts |-> 1,
               updates |-> 0,
               advisories |-> 0])
Next == Coordinator \/ Consumer \/ Commands \/ Display \/ ScalpLoop \/ Flatten
Spec == Init /\ [][Next]_vars

(* Sessions stopped and started again (too short for a batch to fill). *)
InitRestart == Start([sessions |-> MaxSessions, signals |-> FewSignals,
                      attempts |-> 1, updates |-> 0,
               advisories |-> 0])
NextRestart == Coordinator \/ Consumer \/ Commands \/ Display \/ ScalpLoop
SpecRestart == InitRestart /\ [][NextRestart]_vars

(* Every producer of the queue at work: the broker's callbacks, a session *)
(* loop, the advisory worker.                                             *)
InitBus == Start([sessions |-> 1, signals |-> FewSignals, attempts |-> 1,
                  updates |-> MaxUpdates,
               advisories |-> 1])
NextBus == Coordinator \/ Consumer \/ Commands \/ ScalpLoop \/ Advisory
              \/ HandleUpdate
SpecBus == InitBus /\ [][NextBus]_vars

(* The connection coordinator alone, attempts overlapping. *)
InitConn == Start([sessions |-> 0, signals |-> 0, attempts |-> MaxAttempts,
                   updates |-> 0,
               advisories |-> 0])
SpecConn == InitConn /\ [][Coordinator]_vars

(* The same, with the scheduling the program relies on: a thread that has *)
(* been started runs, and a callback handed to after() is run by the      *)
(* event loop.  Nothing is assumed of the broker.                         *)
SpecConnFair ==
    /\ InitConn /\ [][Coordinator]_vars
    /\ \A a \in Attempts :
          /\ WF_vars(ConnectThreadTarget(a))
          /\ WF_vars(ShowAuthenticating(a))
          /\ WF_vars(ShowConnectFailed(a))
          /\ WF_vars(CheckConnection(a))
          /\ WF_vars(FetchAccountDetails(a))

(* _execute_trade applied to every trade intent: the drain starts with    *)
(* one intent queued by a caller, and a short session follows.            *)
(* The begin and stop commands with any text in the strategy box. *)
StrategyVarValues == {"Safe", "Custom"}
InitCommands ==
    /\ Constructed
    /\ strategy_var \in StrategyVarValues
    /\ budget = [sessions |-> MaxSessions, signals |-> 0, attempts |-> 1,
                 updates |-> 0, advisories |-> 0]
    /\ gate = <<>>
    /\ ui_queue = <<>>
    /\ sent = [p \in Producers |-> 0]
    /\ drain_pending = 1
    /\ main_thread = [pc |-> "idle"]
NextCommands == Coordinator \/ Commands \/ Display
SpecCommands == InitCommands /\ [][NextCommands]_vars

(* The consumer with handlers that may raise, fed by the broker's        *)
(* callbacks and one advisory request.                                    *)
InitDrain == Start([sessions |-> 0, signals |-> 0, attempts |-> 1,
                    updates |-> MaxUpdates, advisories |-> 1])
NextDrain ==
    Coordinator \/ Drain \/ DispatchRaises \/ Advisory \/ HandleUpdate
SpecDrain == InitDrain /\ [][NextDrain]_vars
SpecDrainFair ==
    /\ SpecDrain
    /\ WF_vars(ProcessUiQueue)
    /\ WF_vars(Dispatch \/ DispatchRaises)
    /\ WF_vars(DrainEnd)

(* Advisory requests one after another, and the consumer. *)
InitAdvisory == Start([sessions |-> 0, signals |-> 0, attempts |-> 1,
                       updates |-> 0, advisories |-> MaxAdvisory])
NextAdvisory == Coordinator \/ Drain \/ Advisory
SpecAdvisory == InitAdvisory /\ [][NextAdvisory]_vars

Intents ==
    {TradeIntent(side, price, tp, sl, sl_offset, tp_offset) :
        side \in Sides, price \in Prices, tp \in 1..MaxPips, sl \in 1..MaxPips,
        sl_offset \in {None} \cup {Some(o) : o \in 0..MaxPips},
        tp_offset \in {None} \cup {Some(o) : o \in 0..MaxPips}}

InitExecuteTrade ==
    /\ Constructed
    /\ strategy_var = "Safe"
    /\ budget = [sessions |-> 1, signals |-> FewSignals, attempts |-> 1,
                 updates |-> 0,
               advisories |-> 0]
    /\ gate = <<>>
    /\ \E intent \in Intents :
         ui_queue = << [type |-> "_execute_trade", data |-> intent,
                        src |-> Caller, n |-> 1] >>
    /\ sent = [p \in Producers |-> IF p = Caller THEN 1 ELSE 0]
    /\ drain_pending = 0
    /\ main_thread = [pc |-> "drain"]
NextExecuteTrade == Coordinator \/ Consumer \/ Commands \/ ScalpLoop
SpecExecuteTrade == InitExecuteTrade /\ [][NextExecuteTrade]_vars

(* The readiness gate applied to every pair of maps. *)
InitGate ==
    /\ Constructed
    /\ strategy_var = "Safe"
    /\ budget = [sessions |-> 0, signals |-> 0, attempts |-> 0, updates |-> 0,
               advisories |-> 0]
    /\ \E required_bars_map \in BarMaps(1..MaxBars),
          available_bars_map \in BarMaps(0..MaxBars) :
         gate = [required_bars_map |-> required_bars_map,
                 available_bars_map |-> available_bars_map]
    /\ ui_queue = <<>>
    /\ sent = [p \in Producers |-> 0]
    /\ drain_pending = 1
    /\ main_thread = [pc |-> "idle"]
SpecGate == InitGate /\ [][ApplyReadinessGate]_vars

-----------------------------------------------------------------------------
(* Properties.                                                            *)

(* A step of session loop w: its record changes and it had been started.  *)
LoopStep(w) == scalp[w].pc # "none" /\ scalp'[w] # scalp[w]

(* The consumer takes one message off the bus.                            *)
Dispatched == main_thread.pc = "drain" /\ handled' # handled

(* C1: the consumer dispatches the messages of each producer in the order *)
(* that producer published them, with none skipped (the message taken is  *)
(* always the one numbered next after the last taken of that producer),   *)
(* and so a trade intent of a session loop is dispatched only right after *)
(* the "Strategy signal" log line that the loop published before it.      *)
C1_PerProducerFifo ==
    [][\A p \in Producers :
         handled'[p] # handled[p] =>
           /\ handled'[p] = handled[p] + 1
           /\ (p \in Workers /\ last_handled'[p] = "_execute_trade")
                 => last_handled[p] = "signal"]_vars

(* C1 witness: a session loop, the broker callbacks and an advisory       *)
(* worker have all had two messages dispatched, the loop's being the log  *)
(* line and then the intent.                                              *)
C1_Witness ==
    /\ handled[Scalper(1)] = 2
    /\ last_handled[Scalper(1)] = "_execute_trade"
    /\ handled[Broker] = 2
    /\ handled[Advisor(1)] = 2

(* C2: at the head of an iteration the loop goes on to flatten exactly    *)
(* when current_batch_trades >= batch_size and the equity it read minus   *)
(* batch_start_equity >= batch_target; the flatten sets                   *)
(* current_batch_trades to 0; no other step of the loop changes           *)
(* current_batch_trades or batch_start_equity.                            *)
C2_BatchFlatten ==
    [][\A w \in Workers :
         LoopStep(w) =>
           /\ scalp'[w].pc = "flatten" <=>
                 /\ scalp[w].pc = "batch"
                 /\ current_batch_trades >= batch_size
                 /\ scalp'[w].equity # None
                 /\ scalp'[w].equity[1] - batch_start_equity
                       >= scalp[w].batch_target
           /\ scalp[w].pc = "flatten" => current_batch_trades' = 0
           /\ scalp[w].pc # "flatten" =>
                 UNCHANGED << current_batch_trades, batch_start_equity >>]_vars

(* C2 witness: a loop is about to flatten with the batch full and the     *)
(* equity gain exactly at the target.                                     *)
C2_Witness ==
    \E w \in Workers :
      /\ scalp[w].pc = "flatten"
      /\ current_batch_trades >= batch_size
      /\ scalp[w].equity[1] - batch_start_equity = scalp[w].batch_target

(* C3: the stop loss handed to place_market_order is the intent's         *)
(* strategy-supplied stop-loss offset whenever one is present, 0          *)
(* included, and the operator's default otherwise; the take profit is     *)
(* chosen the same way from its own offset, independently.                *)
C3_OffsetPrecedence ==
    [][(Dispatched /\ main_thread'.pc = "place_market_order") =>
         LET intent == Head(ui_queue).data IN
           /\ main_thread'.stop_loss_pips =
                 IF intent.sl_offset_strategy = None
                 THEN intent.sl_pips_gui
                 ELSE intent.sl_offset_strategy[1]
           /\ main_thread'.take_profit_pips =
                 IF intent.tp_offset_strategy = None
                 THEN intent.tp_pips_gui
                 ELSE intent.tp_offset_strategy[1]]_vars

(* C3 witness: an order is being placed with a stop loss of 0 pips, which *)
(* only a strategy offset of 0 gives, and a take profit from the default. *)
C3_Witness ==
    /\ main_thread.pc = "place_market_order"
    /\ main_thread.stop_loss_pips = 0
    /\ main_thread.take_profit_pips > 0

(* C4: the readiness gate shows ready exactly when every timeframe that   *)
(* the requirement names has at least the required number of bars, a      *)
(* timeframe absent from the availability map counting as 0; an empty     *)
(* requirement is ready.                                                  *)
C4_ReadinessGate ==
    readiness # "none" =>
      (readiness = "ready" <=>
         \A tf \in DOMAIN gate.required_bars_map :
           (IF tf \in DOMAIN gate.available_bars_map
            THEN gate.available_bars_map[tf] ELSE 0)
              >= gate.required_bars_map[tf])

(* C4 witness: the gate waits although one required timeframe has enough  *)
(* bars, because the other required timeframe is absent.                  *)
C4_Witness ==
    /\ readiness = "waiting"
    /\ DOMAIN gate.required_bars_map = Timeframes
    /\ DOMAIN gate.available_bars_map = {"1m"}
    /\ gate.available_bars_map["1m"] >= gate.required_bars_map["1m"]

(* C5: an iteration whose get_market_price returns no price sleeps and    *)
(* continues without calling the strategy and without publishing          *)
(* anything; and dispatching a trade intent that has no price places no   *)
(* order and leaves total_trades and current_batch_trades unchanged.      *)
C5_NoPriceNoTrade ==
    [][/\ \A w \in Workers :
            (LoopStep(w) /\ scalp[w].pc = "price" /\ scalp'[w].pc # "crashed"
               /\ scalp'[w].price = None)
              => scalp'[w].pc = "sleep_no_price"
                    /\ UNCHANGED << ui_queue, sent >>
       /\ \A w \in Workers :
            (LoopStep(w) /\ scalp[w].pc = "publish") => scalp[w].price # None
       /\ (Dispatched /\ Head(ui_queue).type = "_execute_trade"
             /\ Head(ui_queue).data.price = None)
            => /\ main_thread'.pc = "drain"
               /\ UNCHANGED << total_trades, current_batch_trades, calls >>
      ]_vars

(* C5 witness: an intent without a price has been dispatched and a        *)
(* session loop has just skipped an iteration that got no price, with no  *)
(* trade counted.                                                         *)
C5_Witness ==
    /\ last_handled[Caller] = "_execute_trade without price"
    /\ main_thread.pc = "idle"
    /\ \E w \in Workers : scalp[w].pc = "sleep_no_price"
    /\ total_trades = 0

(* C6: when connect() returns false the attempt ends in Failed, the       *)
(* status text being "Failed: <reason>" with the reason that              *)
(* get_connection_status() then gives, or "Connection failed." when it    *)
(* gives none; the attempt never shows Authenticating and never polls.    *)
C6_ConnectRefused ==
    [][\A a \in Attempts :
         /\ (attempts[a].pc = "thread" /\ attempts'[a].pc # "thread"
               /\ ~attempts'[a].handshake)
              => /\ attempts'[a].pc = "failing"
                 /\ attempts'[a].final_msg =
                       IF trader_conn' = "error"
                       THEN <<"Failed", "rejected">>
                       ELSE <<"Connection failed.">>
         /\ (attempts[a].pc = "failing" /\ attempts'[a] # attempts[a])
              => /\ attempts'[a].pc = "failed"
                 /\ status' = attempts[a].final_msg
         /\ (attempts[a].pc = "failed" /\ ~attempts[a].handshake)
              => attempts'[a] = attempts[a]]_vars

(* C6 witness: an attempt whose connect() returned false has ended with   *)
(* the reason in the status text, without a single poll.                  *)
C6_Witness ==
    \E a \in Attempts :
      /\ attempts[a].pc = "failed"
      /\ ~attempts[a].handshake
      /\ attempts[a].polls = 0
      /\ status = <<"Failed", "rejected">>

(* C7 as stated: if get_connection_status() never gives a reason and from *)
(* some poll on reports connected, every attempt whose connect() returned *)
(* true eventually reaches Connected.                                     *)
C7_ConnectedOnceStatusTrue ==
    ([](trader_conn # "error") /\ <>[](trader_conn = "yes"))
       => \A a \in Attempts :
            attempts[a].handshake ~> (attempts[a].pc = "connected")

(* C7: if get_connection_status() never gives a reason and from some poll *)
(* on reports connected, and the account summary eventually carries an    *)
(* account id and a balance, every attempt whose connect() returned true  *)
(* keeps polling and eventually reaches Connected.                        *)
C7_EventuallyConnected ==
    ([](trader_conn # "error") /\ <>[](trader_conn = "yes")
        /\ <>[]trader_account)
       => \A a \in Attempts :
            attempts[a].handshake ~> (attempts[a].pc = "connected")

(* C7 witness: an attempt is Connected after at least MaxPolls polls that *)
(* found the connection not yet up.                                       *)
C7_Witness ==
    \E a \in Attempts :
      /\ attempts[a].pc = "connected"
      /\ attempts[a].polls = MaxPolls
      /\ status = <<"Connected">>

(* C8: once stop has been invoked on a running session, its loop          *)
(* publishes no trade intent after the iteration then in flight has       *)
(* completed, and every stop invoked on a running session has called      *)
(* close_all_positions exactly once.                                      *)
C8_StopEndsPublishing ==
    [][/\ \A w \in Workers :
            stop_seen[w] = 2 =>
              ~(scalp[w].pc = "publish" /\ scalp'[w].pc = "sleep")
       /\ calls'.close_all_positions = calls'.stop_scalping]_vars

(* C9: an advisory worker publishes at most one result (advice or error)  *)
(* and at most one re-enable, the result first, and has published exactly *)
(* one of each when it ends; it calls get_ai_advice at most once.         *)
C9_AdvisoryOnce ==
    \A k \in Requests :
      /\ advisory[k].results <= 1
      /\ advisory[k].idles <= advisory[k].results
      /\ advisory[k].advice_calls <= 1
      /\ sent[Advisor(k)] = advisory[k].results + advisory[k].idles
      /\ advisory[k].pc = "done" =>
            advisory[k].results = 1 /\ advisory[k].idles = 1
      /\ \A i \in 1..Len(ui_queue) :
            ui_queue[i].src = Advisor(k) =>
              /\ ui_queue[i].n = 1 <=>
                    ui_queue[i].type \in {"show_ai_advice", "show_ai_error"}
              /\ ui_queue[i].n = 2 <=>
                    ui_queue[i].type = "re-enable_ai_button"

(* C9 witness: a request that never got as far as get_ai_advice has       *)
(* ended, and its error and then its re-enable have been dispatched.      *)
C9_Witness ==
    \E k \in Requests :
      /\ advisory[k].pc = "done"
      /\ advisory[k].advice_calls = 0
      /\ handled[Advisor(k)] = 2
      /\ last_handled[Advisor(k)] = "re-enable_ai_button"
      /\ ai_button = "normal"

Pending(queue, p) == SelectSeq(queue, LAMBDA m : m.src = p)

(* The trade intents among them.                                          *)
PendingIntents(queue, p) ==
    SelectSeq(queue, LAMBDA m : m.src = p /\ m.type = "_execute_trade")

(* C11: a decision of the loop either is a buy or sell, and the loop then *)
(* puts exactly one trade intent of that side on the bus, or is anything  *)
(* else and puts nothing; no other step of the loop puts a trade intent;  *)
(* every message published and not yet dispatched is on the bus exactly   *)
(* once; and dispatching a trade intent hands it to _execute_trade, which *)
(* submits its order when it has a price.                                 *)
C11_OneIntentPerSignal ==
    [][/\ \A w \in Workers :
            LoopStep(w) =>
              /\ (scalp[w].pc = "decide" /\ scalp'[w].pc # "crashed")
                   => \/ /\ scalp'[w].pc = "publish"
                         /\ scalp'[w].action_details.action \in Sides
                         /\ PendingIntents(ui_queue', w)
                               = PendingIntents(ui_queue, w)
                      \/ /\ scalp'[w].pc = "sleep"
                         /\ UNCHANGED << ui_queue, sent >>
              /\ scalp[w].pc = "publish"
                   => /\ sent'[w] = sent[w] + 1
                      /\ Len(ui_queue') = Len(ui_queue) + 1
                      /\ ui_queue'[Len(ui_queue')].type = "_execute_trade"
                      /\ ui_queue'[Len(ui_queue')].src = w
                      /\ ui_queue'[Len(ui_queue')].data.side
                            = scalp[w].action_details.action
              /\ scalp[w].pc \notin {"decide", "publish"}
                   => PendingIntents(ui_queue', w) = PendingIntents(ui_queue, w)
       /\ \A p \in Producers :
            /\ Len(Pending(ui_queue', p)) = sent'[p] - handled'[p]
            /\ \A i \in 1..Len(Pending(ui_queue', p)) :
                 Pending(ui_queue', p)[i].n = handled'[p] + i
       /\ (Dispatched /\ Head(ui_queue).type = "_execute_trade"
             /\ Head(ui_queue).data.price # None)
            => /\ main_thread'.pc = "place_market_order"
               /\ main_thread'.side = Head(ui_queue).data.side
      ]_vars

(* C11 witness: two signals of a loop have each had their one intent      *)
(* dispatched and their orders placed, and nothing of the loop is left on *)
(* the bus.                                                               *)
C11_Witness ==
    \E w \in Workers :
      /\ sent[w] = 4
      /\ handled[w] = 4
      /\ calls.place_market_order_ok = 2
      /\ main_thread.pc = "idle"

(* A step of the session side: a loop thread moves, or a session starts.  *)
SessionStep == \E w \in Workers : scalp'[w] # scalp[w]

(* C12: current_batch_trades and batch_start_equity change only in steps  *)
(* of the session loop (or at the start of a session), total_trades only  *)
(* as an order submission returns, and the increment for a successful     *)
(* trade lands on the value the counter has, never on an older one.       *)
C12_SingleWriter ==
    [][/\ current_batch_trades' # current_batch_trades => SessionStep
       /\ batch_start_equity' # batch_start_equity => SessionStep
       /\ total_trades' # total_trades
            => main_thread.pc = "place_market_order"
       /\ (main_thread.pc = "store" /\ main_thread'.pc # "store")
            => current_batch_trades' = current_batch_trades + 1]_vars

(* C13: a loop thread has ended only if stop was invoked on its session:  *)
(* an exception raised by get_account_summary, get_market_price or        *)
(* strategy.decide does not end it.                                       *)
C13_LoopSurvivesFailure ==
    \A w \in Workers :
      scalp[w].pc \in {"done", "crashed"} => stop_seen[w] # 0

(* C14: the flatten sets batch_start_equity to the equity the account has *)
(* once close_all_positions has been carried out.                         *)
C14_BaselineAfterClose ==
    [][\A w \in Workers :
         (LoopStep(w) /\ scalp[w].pc = "flatten")
            => batch_start_equity' = scalp'[w].equity_after_close[1]]_vars

(* C15: a flatten whose close_all_positions raises puts the error on the  *)
(* bus and leaves current_batch_trades and batch_start_equity as they     *)
(* were, and the loop does not go back to the close.                      *)
C15_CloseFailureKeepsCounters ==
    [][\A w \in Workers :
         (LoopStep(w) /\ scalp[w].pc = "flatten" /\ sent'[w] # sent[w])
            => /\ ui_queue'[Len(ui_queue')].data = <<"close_error">>
               /\ UNCHANGED << current_batch_trades, batch_start_equity >>
               /\ scalp'[w].pc # "flatten"]_vars

(* The connection state of the specification that an attempt is in.       *)
ConnectionState(attempt) ==
    CASE attempt.pc = "none" -> "Disconnected"
      [] attempt.pc = "thread" -> "Connecting"
      [] attempt.pc \in {"authenticating", "check", "fetch"} -> "Authenticating"
      [] attempt.pc = "connected" -> "Connected"
      [] OTHER -> "Failed"

(* C16: an attempt moves only Disconnected -> Connecting ->               *)
(* Authenticating -> Connected, or to Failed; it enters Authenticating    *)
(* only when connect() returned true; it is handed to                     *)
(* _on_successful_connection only by a poll that found the status         *)
(* connected; it becomes Connected, with the status text and the trading  *)
(* page shown, only when the account summary is resolved, and stays in    *)
(* Authenticating while it is not; nothing else shows the trading page.   *)
C16_ConnectionStateMachine ==
    [][/\ \A a \in Attempts :
            LET from == ConnectionState(attempts[a])
                to   == ConnectionState(attempts'[a])
            IN  /\ from # to =>
                     \/ << from, to >> \in
                           { << "Disconnected", "Connecting" >>,
                             << "Connecting", "Authenticating" >>,
                             << "Authenticating", "Connected" >> }
                     \/ to = "Failed"
                /\ (from # to /\ to = "Authenticating")
                     => attempts'[a].handshake
                /\ (attempts[a].pc = "check"
                      /\ attempts'[a].pc \in {"fetch", "connected"})
                     => trader_conn = "yes"
                /\ (attempts'[a].pc = "fetch" /\ attempts[a].pc # "fetch")
                     => attempts[a].pc = "check"
                /\ (from # to /\ to = "Connected")
                     => /\ attempts[a].handshake
                        /\ attempts[a].pc \in {"check", "fetch"}
                        /\ trader_account
                        /\ status' = <<"Connected">>
                        /\ page' = "TradingPage"
                /\ (attempts[a].pc = "fetch" /\ ~trader_account)
                     => attempts'[a].pc = "fetch"
       /\ (page' = "TradingPage" /\ page # "TradingPage") =>
            \E a \in Attempts :
              /\ ConnectionState(attempts[a]) # "Connected"
              /\ ConnectionState(attempts'[a]) = "Connected"]_vars

(* C16 witness: one attempt has failed and another is Connected, with the *)
(* account resolved and the trading page shown.                           *)
C16_Witness ==
    \E a, b \in Attempts :
      /\ ConnectionState(attempts[a]) = "Connected"
      /\ ConnectionState(attempts[b]) = "Failed"
      /\ trader_account
      /\ page = "TradingPage"

(* C17: an attempt that is Failed stays Failed: its thread does not go    *)
(* back to connect(), no poll of it runs or is counted, and the only step *)
(* left to it is showing the failure; an attempt begins only in a step of *)
(* attempt_connection, which shows "Processing connection...".            *)
C17_NoAutoRetry ==
    [][\A a \in Attempts :
         /\ ConnectionState(attempts[a]) = "Failed"
              => /\ ConnectionState(attempts'[a]) = "Failed"
                 /\ attempts'[a].pc \notin {"thread", "check", "fetch"}
                 /\ attempts'[a].polls = attempts[a].polls
                 /\ attempts'[a].handshake = attempts[a].handshake
                 /\ attempts[a].pc = "failed" => attempts'[a] = attempts[a]
         /\ (attempts[a].pc = "none" /\ attempts'[a].pc # "none")
              => /\ attempts'[a].pc = "thread"
                 /\ status' = <<"Processing connection...">>
                 /\ \A b \in Attempts \ {a} : attempts'[b] = attempts[b]]_vars

(* C17 witness: an attempt has failed at a poll that came with a reason,  *)
(* after its connect() had returned true, and another attempt, begun by   *)
(* the caller, is at its connect().                                       *)
C17_Witness ==
    \E a, b \in Attempts :
      /\ attempts[a].pc = "failed"
      /\ attempts[a].handshake
      /\ status = <<"Processing connection...">>
      /\ attempts[b].pc = "thread"

(* C18: a loop thread that was running when stop was invoked has ended    *)
(* once it has been through its next iteration boundary, whatever         *)
(* commands came after the stop.                                          *)
C18_WorkerExitsAfterStop ==
    \A w \in Workers :
      stop_seen[w] = 2 => scalp[w].pc \in {"done", "crashed"}

(* C19: an order submission begins only as the consumer dispatches an     *)
(* _execute_trade message, while no other submission is in progress;      *)
(* while one is in progress the main thread runs nothing else (no         *)
(* dispatch, no drain, no command); and no step of a loop thread submits  *)
(* an order or counts a trade.                                            *)
C19_SingleExecutionContext ==
    [][/\ (main_thread'.pc = "place_market_order"
             /\ main_thread.pc # "place_market_order")
            => /\ Dispatched
               /\ Head(ui_queue).type = "_execute_trade"
       /\ main_thread.pc \in {"place_market_order", "store"}
            => /\ main_thread'.pc \in {"place_market_order", "store", "drain"}
               /\ UNCHANGED << handled, drain_pending, is_scalping, page,
                               status, start_button, stop_button, ai_button >>
       /\ calls'.place_market_order_ok # calls.place_market_order_ok
            => main_thread.pc = "place_market_order"
       /\ \A w \in Workers :
            LoopStep(w) => UNCHANGED << main_thread, total_trades, calls >>
      ]_vars

(* C19 witness: an order submission is in progress while the next trade   *)
(* intent of the loop waits on the bus.                                   *)
C19_Witness ==
    /\ main_thread.pc = "place_market_order"
    /\ \E w \in Workers : PendingIntents(ui_queue, w) # <<>>

(* A request is outstanding from the click until the consumer has         *)
(* dispatched the last message of its worker.                             *)
Outstanding(k) ==
    /\ advisory[k].pc # "none"
    /\ ~(advisory[k].pc = "done" /\ handled[Advisor(k)] = sent[Advisor(k)])

(* C20: at most one advisory request is outstanding, the trigger is       *)
(* disabled for as long as one is, and so at most one advisory worker     *)
(* runs at a time.                                                        *)
C20_OneAdvisoryOutstanding ==
    /\ Cardinality({k \in Requests : Outstanding(k)}) <= 1
    /\ (\E k \in Requests : Outstanding(k)) <=> ai_button = "disabled"
    /\ Cardinality({k \in Requests :
                      advisory[k].pc \notin {"none", "done"}}) <= 1

(* C20 witness: a second request is running, after the first has ended    *)
(* and its re-enable has been dispatched.                                 *)
C20_Witness ==
    \E j, k \in Requests :
      /\ advisory[j].pc = "done"
      /\ handled[Advisor(j)] = 2
      /\ advisory[k].pc = "get_ai_advice"
      /\ ai_button = "disabled"

(* C21: a session begins only with a strategy name that strategy_map      *)
(* knows; a begin command with any other name is rejected: it starts no   *)
(* loop thread, leaves is_scalping false, and leaves current_batch_trades *)
(* and batch_start_equity as they were.                                   *)
C21_UnknownStrategyRejected ==
    [][/\ (\E w \in Workers : scalp[w].pc = "none" /\ scalp'[w].pc # "none")
            => strategy_var \in {"Safe", "Moderate", "Aggressive",
                                 "Momentum", "Mean Reversion"}
       /\ calls'.start_rejected # calls.start_rejected
            => /\ is_scalping' = FALSE
               /\ UNCHANGED << scalp, current_batch_trades,
                               batch_start_equity >>]_vars

(* C21 witness: a begin command with a name strategy_map does not know    *)
(* has been rejected and no session is running.                           *)
C21_Witness ==
    /\ calls.start_rejected = 1
    /\ strategy_var \notin strategy_map
    /\ ~is_scalping
    /\ \A w \in Workers : scalp[w].pc = "none"

(* C22: total_trades never decreases and always equals the number of      *)
(* place_market_order calls that have returned success since start-up,    *)
(* and current_batch_trades never exceeds total_trades.                   *)
C22_TradesCounted ==
    [][/\ total_trades' >= total_trades
       /\ total_trades = calls.place_market_order_ok
       /\ total_trades' = calls'.place_market_order_ok
       /\ current_batch_trades <= total_trades
       /\ current_batch_trades' <= total_trades']_vars

(* C22 witness: one more order than a batch holds has succeeded, and the  *)
(* batch counter has been reset in between.                               *)
C22_Witness ==
    /\ total_trades = batch_size + 1
    /\ calls.place_market_order_ok = batch_size + 1
    /\ current_batch_trades = 1
    /\ calls.close_all_positions >= 1

(* C23: in every reachable state in which start_button is enabled, the    *)
(* trader is connected and the most recent readiness evaluation found     *)
(* every required timeframe ready; this includes the state at start-up    *)
(* before the first evaluation and the state right after a stop command.  *)
C23_StartEnabledOnlyWhenReady ==
    start_button = "normal" => trader_conn = "yes" /\ readiness = "ready"

(* C24: at most one _scalp_loop thread is executing iterations at any     *)
(* time. A thread that was stopped and has not yet re-read is_scalping    *)
(* is not counted: after a stop followed by a begin, the old thread and   *)
(* the new one are never both running past their flag check.              *)
C24_OneLoopThread ==
    Cardinality({w \in Workers : Running(w) /\ stop_seen[w] # 1}) <= 1

(* C25: between a stop command (flag cleared, close_all_positions called) *)
(* and the next begin command no place_market_order is submitted: an      *)
(* intent still queued at the stop, or published by the iteration in      *)
(* flight, opens no position after the flatten.                           *)
C25_NoOrderAfterStop ==
    [][(main_thread'.pc = "place_market_order"
          /\ main_thread.pc # "place_market_order")
         => ~(calls.stop_scalping >= 1 /\ ~is_scalping)]_vars

(* C26: in every reachable state, while is_scalping is true the start     *)
(* button is disabled and the stop button is enabled, and while it is     *)
(* false the stop button is disabled, under every interleaving of         *)
(* readiness checks and begin and stop commands; so a session begins      *)
(* only from a state in which none is running.                            *)
C26_ButtonsFollowSession ==
    [][/\ is_scalping => start_button = "disabled" /\ stop_button = "normal"
       /\ ~is_scalping => stop_button = "disabled"
       /\ is_scalping' =>
            start_button' = "disabled" /\ stop_button' = "normal"
       /\ ~is_scalping' => stop_button' = "disabled"
       /\ (\E w \in Workers : scalp[w].pc = "none" /\ scalp'[w].pc # "none")
            => ~is_scalping /\ is_scalping']_vars

(* C26 witness: a session is running with the trader connected and the   *)
(* last readiness check all ready, and the start button is disabled.      *)
C26_Witness ==
    /\ is_scalping
    /\ readiness = "ready"
    /\ trader_conn = "yes"
    /\ start_button = "disabled"
    /\ stop_button = "normal"

(* C27, as stated: exactly one run of _process_ui_queue is pending at any *)
(* time.                                                                  *)
C27_OneDrainPending == drain_pending = 1

(* C27: every run of _process_ui_queue, also one that a raising handler   *)
(* ends, schedules the next, so that exactly one run is pending or in     *)
(* progress at any time; a run takes messages from the head of the queue  *)
(* only, one per handler call, and a handler failure removes no other     *)
(* message; every published message is eventually taken, once.            *)
C27_DrainRearms ==
    /\ [](drain_pending + (IF main_thread.pc = "idle" THEN 0 ELSE 1) = 1)
    /\ [][/\ (main_thread.pc # "idle" /\ main_thread'.pc = "idle")
               => drain_pending' = drain_pending + 1
          /\ Dispatched
               => /\ ui_queue' = Tail(ui_queue)
                  /\ handled'[Head(ui_queue).src] = Head(ui_queue).n
          /\ ~Dispatched
               => /\ UNCHANGED handled
                  /\ \/ UNCHANGED ui_queue
                     \/ /\ Len(ui_queue') = Len(ui_queue) + 1
                        /\ SubSeq(ui_queue', 1, Len(ui_queue)) = ui_queue
          /\ \A p \in Producers :
               /\ handled'[p] \in {handled[p], handled[p] + 1}
               /\ Len(Pending(ui_queue', p)) = sent'[p] - handled'[p]]_vars
    /\ \A p \in Producers : \A n \in 1..MaxUpdates :
         (sent[p] >= n) ~> (handled[p] >= n)

(* C27 witness: a handler has raised, and every message published, those  *)
(* of the broker's callbacks and of the advisory worker, has been taken   *)
(* with the next run pending.                                             *)
C27_Witness ==
    /\ calls.handler_raised = 1
    /\ ui_queue = <<>>
    /\ sent[Broker] = MaxUpdates
    /\ sent[Advisor(1)] = 2
    /\ \A p \in Producers : handled[p] = sent[p]
    /\ main_thread.pc = "idle"
    /\ drain_pending = 1
=============================================================================
